---- MODULE Spec2Model ----
(***************************************************************************)
(* MyBlock Studio: the StageRuntime sprite interpreter and the runProgram  *)
(* executor of the mobile app (src/app/App.tsx; the web app in             *)
(* src/unnamed/part_000 carries the same StageRuntime class).              *)
(*                                                                         *)
(* JavaScript numbers are modelled as records.  A finite number is         *)
(* n + e * 2^-60 with n an integer and e a small integer residue; sums are *)
(* rounded to the 53-bit grid of IEEE doubles exactly as the addition in   *)
(* the source rounds them.  NaN is a value of its own.                     *)
(*                                                                         *)
(* Where an operator uses a computed number several times, the number is   *)
(* bound as the element of a one-element set (CHOOSE v \in {... : x \in     *)
(* {e}} : TRUE is LET x == e IN ...): TLC evaluates a LET definition anew  *)
(* at every use when it evaluates ENABLED, a bound variable only once.     *)
(***************************************************************************)
EXTENDS Integers, Sequences, FiniteSets, TLC

(***************************************************************************)
(* Bounds of the model.                                                    *)
(***************************************************************************)
MaxOps == 3
MaxRuns == 2

(***************************************************************************)
(* JavaScript numbers.                                                     *)
(***************************************************************************)
Fin(n, e) == [k |-> "fin", n |-> n, e |-> e]
Num(n) == Fin(n, 0)
NaN == [k |-> "nan", n |-> 0, e |-> 0]
IsNaN(a) == a.k = "nan"
\* -2^-60, a negative number far below the spacing of doubles near 360
NegTiny == Fin(0, -1)

Abs(i) == IF i < 0 THEN -i ELSE i
Sign(i) == IF i < 0 THEN -1 ELSE IF i > 0 THEN 1 ELSE 0

RECURSIVE Pow2(_)
Pow2(k) == IF k = 0 THEN 1 ELSE 2 * Pow2(k - 1)

RECURSIVE Log2(_)
Log2(m) == IF m < 2 THEN 0 ELSE 1 + Log2(m \div 2)

\* spacing of doubles around n + e * 2^-60 (n # 0), in units of 2^-60
UlpQ(n, e) ==
    CHOOSE u \in {IF Pow2(l) = m /\ Sign(e) = -Sign(n) THEN Pow2(l + 7) ELSE Pow2(l + 8) :
                     <<m, l>> \in {<<Abs(n), Log2(Abs(n))>>}} : TRUE

\* round e to a multiple of u, ties to the even multiple
RoundTo(e, u) ==
    CHOOSE v \in {IF 2 * r < u THEN lo * u
                   ELSE IF 2 * r > u THEN (lo + 1) * u
                   ELSE IF lo % 2 = 0 THEN lo * u ELSE (lo + 1) * u :
                     <<lo, r>> \in {<<e \div u, e - (e \div u) * u>>}} : TRUE

\* round the exact value n + e * 2^-60 to the nearest double
FlRound(n, e) ==
    IF n = 0 THEN Fin(0, e) ELSE CHOOSE v \in {Fin(n, RoundTo(e, u)) : u \in {UlpQ(n, e)}} : TRUE

\* a + b
FlAdd(a, b) ==
    CHOOSE v \in {IF IsNaN(x) \/ IsNaN(y) THEN NaN ELSE FlRound(x.n + y.n, x.e + y.e) :
                     x \in {a}, y \in {b}} : TRUE

\* a < b (false when either side is NaN)
FlLt(a, b) ==
    /\ ~IsNaN(a)
    /\ ~IsNaN(b)
    /\ \/ a.n < b.n
       \/ a.n = b.n /\ a.e < b.e

\* a === b (false when either side is NaN)
FlEq(a, b) == ~IsNaN(a) /\ ~IsNaN(b) /\ a.n = b.n /\ a.e = b.e

\* -a
FlNeg(a) == IF IsNaN(a) THEN NaN ELSE Fin(-a.n, -a.e)

\* Math.max(a, b)
MathMax(a, b) == IF IsNaN(a) \/ IsNaN(b) THEN NaN ELSE IF FlLt(a, b) THEN b ELSE a

\* Math.min(a, b)
MathMin(a, b) == IF IsNaN(a) \/ IsNaN(b) THEN NaN ELSE IF FlLt(b, a) THEN b ELSE a

\* Math.abs(a)
MathAbs(a) == IF IsNaN(a) THEN NaN ELSE IF FlLt(a, Num(0)) THEN FlNeg(a) ELSE a

\* truncated remainder of integers: the sign follows the dividend
Rem(n, d) == Sign(n) * (Abs(n) % d)

\* a % d for an integer d > 0: exact, the sign follows the dividend
FlMod(a, d) ==
    CHOOSE v \in {IF IsNaN(x) THEN NaN
                   ELSE IF x.n # 0 /\ x.e # 0 /\ Rem(x.n, d) = 0 /\ Sign(x.e) = -Sign(x.n)
                        THEN Fin(Sign(x.n) * d, x.e)
                        ELSE Fin(Rem(x.n, d), x.e) : x \in {a}} : TRUE

\* multiplication of an integer-valued number by an integer constant
FlScale(a, c) == IF IsNaN(a) THEN NaN ELSE Fin(a.n * c, a.e * c)

(***************************************************************************)
(* Math.cos and Math.sin at the headings the model reaches.  A value of    *)
(* the table is u + t * 2^-60 / 1000: the doubles Math.cos(Math.PI / 2),   *)
(* Math.sin(Math.PI) and Math.cos(3 * Math.PI / 2) are 6.123e-17,          *)
(* 1.2246e-16 and -1.837e-16, not zero.                                    *)
(***************************************************************************)
Trig(u, t) == [u |-> u, t |-> t]
TrigNaN == [u |-> 0, t |-> 0, nan |-> TRUE]

\* Math.cos(((direction - 90) * Math.PI) / 180), keyed on direction - 90
MathCos(deg) ==
    IF IsNaN(deg) THEN TrigNaN
    ELSE CASE deg.n = 0 -> Trig(1, 0)
           [] deg.n = 90 -> Trig(0, 70596)
           [] deg.n = -90 -> Trig(0, 70596)
           [] deg.n = 180 -> Trig(-1, 0)
           [] deg.n = 270 -> Trig(0, -211788)

\* Math.sin(((direction - 90) * Math.PI) / 180), keyed on direction - 90
MathSin(deg) ==
    IF IsNaN(deg) THEN TrigNaN
    ELSE CASE deg.n = 0 -> Trig(0, 0)
           [] deg.n = 90 -> Trig(1, 0)
           [] deg.n = -90 -> Trig(-1, 0)
           [] deg.n = 180 -> Trig(0, 141192)
           [] deg.n = 270 -> Trig(-1, 0)

\* trig * distance for an integer distance
TrigTimes(c, distance) ==
    IF "nan" \in DOMAIN c \/ IsNaN(distance) THEN NaN
    ELSE Fin(c.u * distance.n, (c.t * distance.n + 500) \div 1000)

(***************************************************************************)
(* Number formatting.                                                      *)
(***************************************************************************)
\* String(a), as the template literals `${steps}` and `${Math.abs(degrees)}` use it
NumberToString(a) ==
    CASE IsNaN(a) -> "NaN"
      [] ~IsNaN(a) /\ a.e = 0 -> ToString(a.n)
      [] ~IsNaN(a) /\ a.n = 0 /\ a.e = -1 -> "-8.673617379884035e-19"
      [] ~IsNaN(a) /\ a.n = 0 /\ a.e = 1 -> "8.673617379884035e-19"

\* a.toFixed(1) for a number within 2^-30 of an integer
ToFixed1(a) ==
    IF IsNaN(a) THEN "NaN"
    ELSE IF a.n = 0 /\ a.e < 0 THEN "-0.0"
    ELSE ToString(a.n) \o ".0"

\* a.toFixed(0) for a number within 2^-30 of an integer
ToFixed0(a) ==
    IF IsNaN(a) THEN "NaN"
    ELSE IF a.n = 0 /\ a.e < 0 THEN "-0"
    ELSE ToString(a.n)

(***************************************************************************)
(* The heap of trail points.  A trail is an array of references to point   *)
(* objects {x, y}; copying an array with [...trail] copies the references, *)
(* not the points.  Reference 0 is the point object of                     *)
(* initialSpriteState.trail.                                               *)
(***************************************************************************)
Point(x, y) == [x |-> x, y |-> y]
InitPointRef == 0

\* the smallest reference not in use
RECURSIVE FreshFrom(_, _)
FreshFrom(h, r) == IF r \in DOMAIN h THEN FreshFrom(h, r + 1) ELSE r
NewRef(h) == FreshFrom(h, 0)

\* h with a new object p stored at reference r
Alloc(h, r, p) == [q \in DOMAIN h \cup {r} |-> IF q = r THEN p ELSE h[q]]

Range(s) == {s[i] : i \in DOMAIN s}

(***************************************************************************)
(* SpriteState and StageRuntime.                                           *)
(***************************************************************************)
stageDimensions == [width |-> 320, height |-> 320]
stepScale == 10
halfWidth == stageDimensions.width \div 2
halfHeight == stageDimensions.height \div 2

NoSpeech == <<>>
Speech(message) == <<message>>

\* const initialSpriteState: its trail holds the one shared point object
initialSpriteState ==
    [x |-> Num(0), y |-> Num(0), direction |-> Num(90), speech |-> NoSpeech,
     trail |-> <<InitPointRef>>]

\* freshSpriteState(): the fields of initialSpriteState and a copy of its
\* trail array, which still refers to the same point object
freshSpriteState ==
    [initialSpriteState EXCEPT !.trail = [i \in DOMAIN initialSpriteState.trail |->
                                             initialSpriteState.trail[i]]]

\* the heap when the module is loaded
InitHeap == [r \in {InitPointRef} |-> Point(Num(0), Num(0))]

\* new StageRuntime()
NewStageRuntime == [state |-> freshSpriteState, logs |-> <<>>]

clampNoMin(value, min, max) == CHOOSE c \in {MathMin(v, max) : v \in {value}} : TRUE

\* clamp(value, min, max)
clamp(value, min, max) ==
    CHOOSE c \in {MathMin(m, max) : m \in {MathMax(v, min) : v \in {value}}} : TRUE

\* snapshot(): the fields of the state and a copy of the trail array
snapshot(rt) == [rt.state EXCEPT !.trail = [i \in DOMAIN rt.state.trail |-> rt.state.trail[i]]]

commitPositionIfMoved(rt, h, x, y) ==
    CHOOSE c \in
        {IF clampedX = rt.state.x /\ clampedY = rt.state.y
         THEN [rt |-> rt, heap |-> h]
         ELSE [rt |-> [rt EXCEPT !.state.x = clampedX,
                                 !.state.y = clampedY,
                                 !.state.trail = Append(rt.state.trail, NewRef(h))],
               heap |-> Alloc(h, NewRef(h), Point(clampedX, clampedY))] :
            clampedX \in {clamp(x, Num(-halfWidth), Num(halfWidth))},
            clampedY \in {clamp(y, Num(-halfHeight), Num(halfHeight))}} : TRUE

\* commitPosition(x, y): the new runtime and the new heap
commitPosition(rt, h, x, y) ==
    CHOOSE c \in
        {[rt |-> [rt EXCEPT !.state.x = clampedX,
                            !.state.y = clampedY,
                            !.state.trail = Append(rt.state.trail, NewRef(h))],
          heap |-> Alloc(h, NewRef(h), Point(clampedX, clampedY))] :
            clampedX \in {clamp(x, Num(-halfWidth), Num(halfWidth))},
            clampedY \in {clamp(y, Num(-halfHeight), Num(halfHeight))}} : TRUE

moveTargetNorth(st, steps) ==
    CHOOSE t \in
        {[x |-> FlAdd(st.x, TrigTimes(MathSin(radians), distance)),
          y |-> FlAdd(st.y, TrigTimes(MathCos(radians), distance))] :
            distance \in {FlScale(steps, stepScale)},
            radians \in {FlAdd(st.direction, Num(-90))}} : TRUE

\* nextX and nextY of move(steps)
moveTarget(st, steps) ==
    CHOOSE t \in
        {[x |-> FlAdd(st.x, TrigTimes(MathCos(radians), distance)),
          y |-> FlAdd(st.y, TrigTimes(MathSin(radians), distance))] :
            distance \in {FlScale(steps, stepScale)},
            radians \in {FlAdd(st.direction, Num(-90))}} : TRUE

\* move(steps): the new runtime and the new heap
move(rt, h, steps) ==
    CHOOSE m \in
        {[rt |-> [c.rt EXCEPT !.logs = Append(c.rt.logs,
                                 "Move " \o NumberToString(steps) \o " steps")],
          heap |-> c.heap] :
            c \in {commitPosition(rt, h, next.x, next.y) :
                      next \in {moveTarget(rt.state, steps)}}} : TRUE

\* the direction turn(degrees) stores
turnDirection(direction, degrees) ==
    CHOOSE v \in {IF FlLt(nextDirection, Num(0)) THEN FlAdd(nextDirection, Num(360))
                   ELSE nextDirection :
                     nextDirection \in {FlMod(FlAdd(direction, degrees), 360)}} : TRUE

\* turn(degrees)
turn(rt, degrees) ==
    [rt EXCEPT !.state.direction = turnDirection(rt.state.direction, degrees),
               !.logs = Append(rt.logs,
                   "Turn " \o (IF FlLt(Num(0), degrees) THEN "right" ELSE "left")
                           \o " " \o NumberToString(MathAbs(degrees)) \o "°")]

sayUnlogged(rt, message) == [rt EXCEPT !.state.speech = Speech(message)]

\* say(message)
say(rt, message) ==
    [rt EXCEPT !.state.speech = Speech(message),
               !.logs = Append(rt.logs, "Say: " \o message)]

\* wait(seconds): the new runtime and the delay of the timer it sets, in
\* milliseconds; ms = NoTimer when it returns without suspending
NoTimer == [k |-> "none", n |-> 0, e |-> 0]
waitDurationUnfloored(seconds) == seconds

\* const duration = Math.max(seconds, 0)
waitDuration(seconds) == MathMax(seconds, Num(0))
wait(rt, seconds) ==
    LET duration == waitDuration(seconds)
    IN  [rt |-> [rt EXCEPT !.logs = Append(rt.logs,
                                "Wait " \o ToFixed1(duration) \o " second(s)")],
         ms |-> IF FlEq(duration, Num(0)) THEN NoTimer ELSE FlScale(duration, 250)]

\* getReport()
getReport(rt) ==
    "x: " \o ToFixed1(rt.state.x) \o ", y: " \o ToFixed1(rt.state.y)
          \o ", direction: " \o ToFixed0(rt.state.direction) \o "°"

\* logs.join('\n')
RECURSIVE JoinLines(_)
JoinLines(lines) ==
    IF lines = <<>> THEN ""
    ELSE IF Len(lines) = 1 THEN lines[1]
    ELSE lines[1] \o "\n" \o JoinLines(Tail(lines))

\* getLogs()
getLogs(rt) == JoinLines(rt.logs)

(***************************************************************************)
(* Program text.  The editor holds one of three texts: defaultCode, the    *)
(* Square Walk sample, or text typed by the user, which may or may not     *)
(* compile when it is run.  A compiled program is known by the calls it    *)
(* makes: the two samples make a fixed sequence of calls, typed text makes *)
(* any sequence of the statements of TypedInstrs.                          *)
(***************************************************************************)
Instr(op, num, str) == [op |-> op, num |-> num, str |-> str]

\* const defaultCode
defaultCode == "default"
defaultProgram ==
    << Instr("move", Num(10), ""), Instr("turn", Num(90), ""),
       Instr("say", Num(0), "Hello, MyBlock!") >>

\* samplePrograms[1].code
squareCode == "square"
squareProgram ==
    << Instr("move", Num(12), ""), Instr("turn", Num(90), ""),
       Instr("move", Num(12), ""), Instr("turn", Num(90), ""),
       Instr("move", Num(12), ""), Instr("turn", Num(90), ""),
       Instr("move", Num(12), ""), Instr("turn", Num(90), ""),
       Instr("say", Num(0), "I made a square!") >>

samplePrograms == {defaultCode, squareCode}
typedCode == "typed"
CodeTexts == {defaultCode, squareCode, typedCode}

\* whether new Function('runtime', ...) accepts the text: it throws a
\* SyntaxError on text that does not parse, which typed text may be
Compiles(text) == IF text = typedCode THEN BOOLEAN ELSE {TRUE}

MoveArgs == {Num(-20), NaN}
TurnArgs == {Num(-90), NegTiny}
SayArgs == {""}
WaitArgs == {Num(0), Num(2), Num(-5)}

\* statements of a typed program: awaited calls of the four operations, a
\* wait that is called without await, and statements that take
\* runtime.snapshot() and write to the value it returned
TypedInstrs ==
    {Instr("move", a, "") : a \in MoveArgs}
    \cup {Instr("turn", a, "") : a \in TurnArgs}
    \cup {Instr("say", Num(0), m) : m \in SayArgs}
    \cup {Instr("wait", a, "") : a \in WaitArgs}
    \cup {Instr("waitNoAwait", Num(2), "")}
    \cup {Instr(op, Num(0), "") : op \in {"snap", "pokeField", "pokePush", "pokePoint"}}

\* values a program throws: new Error('boom'), the string 'boom', and
\* Object.create(null), which String() cannot convert
Thrown(kind, message) == [kind |-> kind, message |-> message]
ThrownValues == {Thrown("Error", "boom"), Thrown("string", "boom"), Thrown("bare", "")}
SyntaxError == Thrown("Error", "Unexpected token")

(***************************************************************************)
(* State.                                                                  *)
(***************************************************************************)
VARIABLES
    code,       \* useState(defaultCode): the text in the editor
    sprite,     \* useState(freshSpriteState()): the sprite the stage shows
    logs,       \* useState('Tap run ...'): the text of the output box
    running,    \* useState(false)
    heap,       \* the point objects of all trails
    runs,       \* the invocations of runProgram, in the order they started
    ops         \* number of statements typed programs have executed

vars == <<code, sprite, logs, running, heap, runs, ops>>

NoSnap == <<>>
NoRuntime == <<>>
NoView == <<>>

\* the point objects a sprite state, a runtime or a held snapshot can still reach
Reachable(s, rs) ==
    {InitPointRef} \cup Range(s.trail)
    \cup UNION {Range(rs[r].rt.state.trail) : r \in {q \in DOMAIN rs : rs[q].rt # NoRuntime}}
    \cup UNION {Range(rs[r].held[1].trail) : r \in {q \in DOMAIN rs : rs[q].held # NoSnap}}

\* garbage collection: the heap without the objects nothing refers to
Collect(h, s, rs) == [r \in DOMAIN h \cap Reachable(s, rs) |-> h[r]]

\* the values a sprite state shows: its trail with the points read from the heap
View(s, h) == [s EXCEPT !.trail = [i \in DOMAIN s.trail |-> h[s.trail[i]]]]

\* one invocation of runProgram
NewRun(text, h, shown) ==
    [phase |-> "Running", escaped |-> FALSE, text |-> text, pc |-> 0,
     calls |-> <<>>, rt |-> NewStageRuntime, timer |-> NoTimer, loose |-> 0,
     held |-> NoSnap, shown |-> shown]

EndedNever(run, phase, escaped) == run

\* a run that has ended: its runtime and the variables of its program are gone,
\* and a timer still pending resolves a promise nothing refers to
Ended(run, phase, escaped) ==
    [run EXCEPT !.phase = phase, !.escaped = escaped, !.text = "", !.pc = 0,
                !.calls = <<>>, !.rt = NoRuntime, !.loose = 0, !.held = NoSnap,
                !.shown = NoView]

Init ==
    /\ code = defaultCode
    /\ sprite = freshSpriteState
    /\ logs = "Tap run to execute your program."
    /\ running = FALSE
    /\ heap = InitHeap
    /\ runs = <<>>
    /\ ops = 0

(***************************************************************************)
(* The program of a run, statement by statement.                           *)
(***************************************************************************)
Program(text) ==
    IF text = defaultCode THEN defaultProgram
    ELSE IF text = squareCode THEN squareProgram
    ELSE <<>>

\* the statements the program of a run can execute next
NextInstrs(run) ==
    IF run.text = typedCode
    THEN IF ops < MaxOps THEN TypedInstrs ELSE {}
    ELSE IF run.pc < Len(Program(run.text)) THEN {Program(run.text)[run.pc + 1]} ELSE {}

\* the program of a run can end here: typed text anywhere, a sample after its
\* last statement
AtEnd(run) == run.text = typedCode \/ run.pc = Len(Program(run.text))

SuspendedNever(run) == FALSE

\* the program is suspended in `await new Promise(... setTimeout ...)`
Suspended(run) == run.timer # NoTimer

\* the program of run r is at a statement
Ready(r) == runs[r].phase = "Running" /\ ~Suspended(runs[r])

Count(run) == IF run.text = typedCode THEN ops + 1 ELSE ops

\* the run after a call of the operation op
Called(run, op, rt) ==
    [run EXCEPT !.rt = rt, !.pc = @ + 1, !.calls = Append(@, op)]

(***************************************************************************)
(* Statements of a program.                                                *)
(***************************************************************************)
\* await runtime.move(steps)
Move(r) ==
    /\ Ready(r)
    /\ \E i \in NextInstrs(runs[r]) :
          /\ i.op = "move"
          /\ \E m \in {move(runs[r].rt, heap, i.num)} :
                 /\ runs' = [runs EXCEPT ![r] = Called(@, "move", m.rt)]
                 /\ heap' = m.heap
    /\ ops' = Count(runs[r])
    /\ UNCHANGED <<code, sprite, logs, running>>

\* await runtime.turn(degrees)
Turn(r) ==
    /\ Ready(r)
    /\ \E i \in NextInstrs(runs[r]) :
          /\ i.op = "turn"
          /\ runs' = [runs EXCEPT ![r] = Called(@, "turn", turn(@.rt, i.num))]
    /\ ops' = Count(runs[r])
    /\ UNCHANGED <<code, sprite, logs, running, heap>>

\* await runtime.say(message)
Say(r) ==
    /\ Ready(r)
    /\ \E i \in NextInstrs(runs[r]) :
          /\ i.op = "say"
          /\ runs' = [runs EXCEPT ![r] = Called(@, "say", say(@.rt, i.str))]
    /\ ops' = Count(runs[r])
    /\ UNCHANGED <<code, sprite, logs, running, heap>>

\* await runtime.wait(seconds): the program resumes when the timer fires
Wait(r) ==
    /\ Ready(r)
    /\ \E i \in NextInstrs(runs[r]) :
          /\ i.op = "wait"
          /\ LET w == wait(runs[r].rt, i.num)
             IN  runs' = [runs EXCEPT ![r] = [Called(@, "wait", w.rt) EXCEPT !.timer = w.ms]]
    /\ ops' = Count(runs[r])
    /\ UNCHANGED <<code, sprite, logs, running, heap>>

\* runtime.wait(seconds) without await: the program goes on while the timer runs
WaitNoAwait(r) ==
    /\ Ready(r)
    /\ \E i \in NextInstrs(runs[r]) :
          /\ i.op = "waitNoAwait"
          /\ LET w == wait(runs[r].rt, i.num)
             IN  runs' = [runs EXCEPT ![r] =
                             [Called(@, "wait", w.rt) EXCEPT
                                 !.loose = IF w.ms = NoTimer THEN @ ELSE @ + 1]]
    /\ ops' = Count(runs[r])
    /\ UNCHANGED <<code, sprite, logs, running, heap>>

\* the setTimeout callback of an awaited wait: resolve()
TimerFire(r) ==
    /\ runs[r].timer # NoTimer
    /\ runs' = [runs EXCEPT ![r].timer = NoTimer]
    /\ UNCHANGED <<code, sprite, logs, running, heap, ops>>

\* the setTimeout callback of a wait nobody awaits: resolve()
LooseFire(r) ==
    /\ runs[r].loose > 0
    /\ runs' = [runs EXCEPT ![r].loose = @ - 1]
    /\ UNCHANGED <<code, sprite, logs, running, heap, ops>>

\* const s = runtime.snapshot()
Snap(r) ==
    /\ Ready(r)
    /\ \E i \in NextInstrs(runs[r]) :
          /\ i.op = "snap"
          /\ runs' = [runs EXCEPT ![r].held = <<snapshot(runs[r].rt)>>, ![r].pc = @ + 1]
    /\ heap' = Collect(heap, sprite, runs')
    /\ ops' = Count(runs[r])
    /\ UNCHANGED <<code, sprite, logs, running>>

\* s.x = 7
PokeField(r) ==
    /\ Ready(r)
    /\ runs[r].held # NoSnap
    /\ \E i \in NextInstrs(runs[r]) :
          /\ i.op = "pokeField"
          /\ runs' = [runs EXCEPT ![r].held[1].x = Num(7), ![r].pc = @ + 1]
    /\ ops' = Count(runs[r])
    /\ UNCHANGED <<code, sprite, logs, running, heap>>

\* s.trail.push({ x: 7, y: 7 })
PokePush(r) ==
    /\ Ready(r)
    /\ runs[r].held # NoSnap
    /\ \E i \in NextInstrs(runs[r]) :
          /\ i.op = "pokePush"
          /\ runs' = [runs EXCEPT ![r].held[1].trail = Append(@, NewRef(heap)),
                                  ![r].pc = @ + 1]
          /\ heap' = Alloc(heap, NewRef(heap), Point(Num(7), Num(7)))
    /\ ops' = Count(runs[r])
    /\ UNCHANGED <<code, sprite, logs, running>>

\* s.trail[0].x = 7
PokePoint(r) ==
    /\ Ready(r)
    /\ runs[r].held # NoSnap
    /\ \E i \in NextInstrs(runs[r]) :
          /\ i.op = "pokePoint"
          /\ runs' = [runs EXCEPT ![r].pc = @ + 1]
          /\ heap' = [heap EXCEPT ![runs[r].held[1].trail[1]].x = Num(7)]
    /\ ops' = Count(runs[r])
    /\ UNCHANGED <<code, sprite, logs, running>>

(***************************************************************************)
(* runProgram, resetProgram, loadSample and the editor.                    *)
(***************************************************************************)
RunEnabledAlways == TRUE

\* <Pressable onPress={runProgram} disabled={running}>
RunEnabled == ~running

\* <Pressable onPress={resetProgram} disabled={running}>
ResetEnabled == ~running

\* <Pressable onPress={() => loadSample(...)} disabled={running}>
SampleEnabled == ~running

\* String(error) throws a TypeError on an object without toString
Stringable(error) == error.kind # "bare"

\* error instanceof Error ? error.message : String(error)
ErrorMessage(error) == error.message

\* the catch and finally blocks of runProgram
Caught(run, error) ==
    [run |-> Ended(run, "Failed", ~Stringable(error)),
     logs |-> IF Stringable(error) THEN "Error: " \o ErrorMessage(error) ELSE "Running..."]

OutputAlwaysJoined(history, report) == history \o "\n" \o report

\* history ? `${history}\n${report}` : report
Output(history, report) == IF history # "" THEN history \o "\n" \o report ELSE report

\* runProgram up to the call of the compiled program
RunPress ==
    /\ RunEnabled
    /\ Len(runs) < MaxRuns
    /\ LET run == NewRun(code, heap, View(sprite, heap))
       IN  \E compiled \in Compiles(code) :
           IF compiled
           THEN /\ runs' = Append(runs, run)
                /\ running' = TRUE
                /\ logs' = "Running..."
           ELSE /\ runs' = Append(runs, Caught(run, SyntaxError).run)
                /\ running' = FALSE
                /\ logs' = Caught(run, SyntaxError).logs
    /\ UNCHANGED <<code, sprite, heap, ops>>

\* the program returns: runProgram after `await runner(runtime)()`
Complete(r) ==
    /\ Ready(r)
    /\ AtEnd(runs[r])
    /\ sprite' = snapshot(runs[r].rt)
    /\ logs' = Output(getLogs(runs[r].rt), getReport(runs[r].rt))
    /\ running' = FALSE
    /\ runs' = [runs EXCEPT ![r] = Ended(@, "Completed", FALSE)]
    /\ heap' = Collect(heap, sprite', runs')
    /\ UNCHANGED <<code, ops>>

\* the program throws: the catch and finally blocks of runProgram
Fail(r) ==
    /\ Ready(r)
    /\ runs[r].text = typedCode
    /\ \E error \in ThrownValues :
          /\ runs' = [runs EXCEPT ![r] = Caught(@, error).run]
          /\ logs' = Caught(runs[r], error).logs
    /\ running' = FALSE
    /\ heap' = Collect(heap, sprite, runs')
    /\ UNCHANGED <<code, sprite, ops>>

\* resetProgram
resetProgram ==
    /\ ResetEnabled
    /\ code' = defaultCode
    /\ sprite' = freshSpriteState
    /\ logs' = "Starter program restored."
    /\ heap' = Collect(heap, sprite', runs)
    /\ UNCHANGED <<running, runs, ops>>

SampleTitle(text) == IF text = defaultCode THEN "Star Greeting" ELSE "Square Walk"

\* loadSample(sampleCode, title)
loadSample ==
    /\ SampleEnabled
    /\ \E text \in samplePrograms :
          /\ code' = text
          /\ logs' = "Loaded sample: " \o SampleTitle(text)
    /\ UNCHANGED <<sprite, running, heap, runs, ops>>

\* <TextInput onChangeText={setCode}>
EditCode ==
    /\ code' = typedCode
    /\ UNCHANGED <<sprite, logs, running, heap, runs, ops>>

Next ==
    \/ RunPress
    \/ resetProgram
    \/ loadSample
    \/ EditCode
    \/ \E r \in DOMAIN runs : Move(r)
    \/ \E r \in DOMAIN runs : Turn(r)
    \/ \E r \in DOMAIN runs : Say(r)
    \/ \E r \in DOMAIN runs : Wait(r)
    \/ \E r \in DOMAIN runs : WaitNoAwait(r)
    \/ \E r \in DOMAIN runs : TimerFire(r)
    \/ \E r \in DOMAIN runs : LooseFire(r)
    \/ \E r \in DOMAIN runs : Snap(r)
    \/ \E r \in DOMAIN runs : PokeField(r)
    \/ \E r \in DOMAIN runs : PokePush(r)
    \/ \E r \in DOMAIN runs : PokePoint(r)
    \/ \E r \in DOMAIN runs : Complete(r)
    \/ \E r \in DOMAIN runs : Fail(r)

Spec == Init /\ [][Next]_vars

\* a setTimeout callback that is due
Timers == \E r \in DOMAIN runs : TimerFire(r) \/ LooseFire(r)

\* the program of a run executes its next statement, returns or throws
ProgramStep ==
    \E r \in DOMAIN runs :
        \/ Move(r) \/ Turn(r) \/ Say(r) \/ Wait(r) \/ WaitNoAwait(r)
        \/ Snap(r) \/ PokeField(r) \/ PokePush(r) \/ PokePoint(r)
        \/ Complete(r) \/ Fail(r)

\* the event loop runs every timer that is due and every program that can go on
LiveSpec == Spec /\ WF_vars(Timers) /\ WF_vars(ProgramStep)

(***************************************************************************)
(* Vocabulary of the properties.                                           *)
(***************************************************************************)
Running(rs) == {r \in DOMAIN rs : rs[r].phase = "Running"}

\* run r executes one statement in this step and is still running after it
Steps(r) == r \in Running(runs) /\ r \in Running(runs') /\ runs'[r].pc = runs[r].pc + 1

\* run r calls the operation op in this step
Calls(r, op) ==
    /\ Steps(r)
    /\ Len(runs'[r].calls) = Len(runs[r].calls) + 1
    /\ runs'[r].calls[Len(runs'[r].calls)] = op

\* run r ends in this step
Fails(r) == r \in Running(runs) /\ runs'[r].phase = "Failed"
Completes(r) == r \in Running(runs) /\ runs'[r].phase = "Completed"

RECURSIVE CountOf(_, _)
CountOf(op, calls) ==
    IF calls = <<>> THEN 0
    ELSE (IF Head(calls) = op THEN 1 ELSE 0) + CountOf(op, Tail(calls))

IsPrefix(s, t) == Len(s) <= Len(t) /\ \A i \in DOMAIN s : s[i] = t[i]

\* -160 <= a <= 160
InStage(a, half) == ~IsNaN(a) /\ ~FlLt(a, Num(-half)) /\ ~FlLt(Num(half), a)

\* the point of the stage nearest to a
Nearest(a, half) ==
    IF IsNaN(a) THEN NaN
    ELSE IF FlLt(a, Num(-half)) THEN Num(-half)
    ELSE IF FlLt(Num(half), a) THEN Num(half)
    ELSE a

\* the outputs runProgram shows for a failure
ErrorTexts == {"Error: boom", "Error: Unexpected token"}

\* what a new runtime has to show
PristineView ==
    [x |-> Num(0), y |-> Num(0), direction |-> Num(90), speech |-> NoSpeech,
     trail |-> <<Point(Num(0), Num(0))>>]

(***************************************************************************)
(* C1.  A program that calls a mutating operation and then throws leaves   *)
(* the output an error string and the sprite on the stage exactly what it  *)
(* was when the run started.                                               *)
(***************************************************************************)
C1_NoPartialResult ==
    [][\A r \in DOMAIN runs :
          Fails(r) /\ runs[r].calls # <<>> =>
              /\ logs' \in ErrorTexts
              /\ View(sprite', heap') = runs[r].shown]_vars

(***************************************************************************)
(* C2.  The trail of a runtime has one point more than the number of move  *)
(* calls made on it; a statement never removes or reorders the points that *)
(* are there, and only move adds one.                                      *)
(***************************************************************************)
C2_TrailGrowth ==
    /\ [](\A r \in Running(runs) :
             Len(runs[r].rt.state.trail) = 1 + CountOf("move", runs[r].calls))
    /\ [][\A r \in DOMAIN runs :
             Steps(r) =>
                 /\ IsPrefix(runs[r].rt.state.trail, runs'[r].rt.state.trail)
                 /\ ~Calls(r, "move") => runs'[r].rt.state.trail = runs[r].rt.state.trail]_vars

\* two moves, the second stopped by the border, and one other call
C2_Witness ==
    \E r \in Running(runs) :
        /\ CountOf("move", runs[r].calls) = 2
        /\ Len(runs[r].calls) = 3
        /\ Len(runs[r].rt.state.trail) = 3
        /\ heap[runs[r].rt.state.trail[2]] = heap[runs[r].rt.state.trail[3]]
        /\ runs[r].rt.state.x = Num(-halfWidth)

(***************************************************************************)
(* C3.  As claimed: in every state of a runtime -160 <= x <= 160 and       *)
(* -160 <= y <= 160.                                                       *)
(***************************************************************************)
C3_AlwaysInStage ==
    \A r \in Running(runs) :
        /\ InStage(runs[r].rt.state.x, halfWidth)
        /\ InStage(runs[r].rt.state.y, halfHeight)

(***************************************************************************)
(* C3, amended.  In every state of a runtime each coordinate is NaN or     *)
(* lies in [-160, 160]; every move is carried out and puts each coordinate *)
(* on the point of the stage nearest to its computed target, the border    *)
(* when the target lies outside, and stores NaN when the target is NaN.    *)
(***************************************************************************)
C3_InStageOrNaN ==
    /\ [](\A r \in Running(runs) :
             /\ IsNaN(runs[r].rt.state.x) \/ InStage(runs[r].rt.state.x, halfWidth)
             /\ IsNaN(runs[r].rt.state.y) \/ InStage(runs[r].rt.state.y, halfHeight))
    /\ [][\A r \in DOMAIN runs :
             Calls(r, "move") =>
                 \E i \in NextInstrs(runs[r]) :
                     /\ i.op = "move"
                     /\ runs'[r].rt.state.x =
                            Nearest(moveTarget(runs[r].rt.state, i.num).x, halfWidth)
                     /\ runs'[r].rt.state.y =
                            Nearest(moveTarget(runs[r].rt.state, i.num).y, halfHeight)]_vars

\* a move of 200 units to the left from the origin has put the sprite on the border
C3_Witness ==
    \E r \in Running(runs) :
        /\ runs[r].calls = <<"move">>
        /\ runs[r].rt.logs = <<"Move -20 steps">>
        /\ runs[r].rt.state.x = Num(-halfWidth)
        /\ runs[r].rt.state.y = Num(0)

(***************************************************************************)
(* C4.  After every turn with a positive, zero or negative argument the    *)
(* direction satisfies 0 <= direction < 360.                               *)
(***************************************************************************)
C4_DirectionNormalized ==
    \A r \in Running(runs) :
        ~IsNaN(runs[r].rt.state.direction) =>
            /\ ~FlLt(runs[r].rt.state.direction, Num(0))
            /\ FlLt(runs[r].rt.state.direction, Num(360))

(***************************************************************************)
(* C5.  A value returned by snapshot() is independent of the runtime:      *)
(* writing to it changes neither what the runtime holds nor the initial    *)
(* state of later runs, and calling operations on the runtime does not     *)
(* change a snapshot taken before.                                         *)
(***************************************************************************)
C5_SnapshotIndependent ==
    [][/\ View(freshSpriteState, heap') = View(freshSpriteState, heap)
       /\ \A r \in DOMAIN runs :
             Steps(r) =>
                 /\ runs'[r].calls = runs[r].calls =>
                        /\ runs'[r].rt.logs = runs[r].rt.logs
                        /\ View(runs'[r].rt.state, heap') = View(runs[r].rt.state, heap)
                 /\ runs'[r].calls # runs[r].calls /\ runs[r].held # NoSnap =>
                        /\ runs'[r].held # NoSnap
                        /\ View(runs'[r].held[1], heap') = View(runs[r].held[1], heap)]_vars

C7_CompletedResult ==
    [][\A r \in DOMAIN runs :
          Completes(r) =>
              /\ View(sprite', heap') = View(runs[r].rt.state, heap)
              /\ Len(runs[r].rt.logs) = Len(runs[r].calls)
              /\ logs' = JoinLines(Append(runs[r].rt.logs, getReport(runs[r].rt)))]_vars

\* a program without calls has completed, and so has the starter program
C7_Witness ==
    /\ Len(runs) = 2
    /\ runs[1].phase = "Completed"
    /\ runs[2].phase = "Completed"
    /\ sprite.x = Num(100)
    /\ sprite.speech = Speech("Hello, MyBlock!")
    /\ logs = "Move 10 steps\nTurn right 90°\nSay: Hello, MyBlock!\nx: 100.0, y: 0.0, direction: 180°"
    /\ ops = 0

(***************************************************************************)
(* C8.  At most one run is running at any time: while a run is in flight   *)
(* no step starts a run or creates a Stage Runtime.                        *)
(***************************************************************************)
C8_OneRunAtATime ==
    /\ [](Cardinality(Running(runs)) <= 1)
    /\ [](running <=> Running(runs) # {})
    /\ [][Running(runs) # {} => Len(runs') = Len(runs)]_vars

\* the second run is in flight, suspended on a timer, after the first has ended
C8_Witness ==
    /\ Len(runs) = 2
    /\ runs[1].phase # "Running"
    /\ runs[2].phase = "Running"
    /\ runs[2].timer # NoTimer
    /\ running

(***************************************************************************)
(* C9.  Every failure of a run is caught by runProgram and shown as        *)
(* "Error: {message}"; no exception leaves runProgram, and text that does  *)
(* not compile executes no operation.                                      *)
(***************************************************************************)
C9_FailuresCaught ==
    [][\A r \in DOMAIN runs' :
          /\ r \notin DOMAIN runs \/ r \in Running(runs)
          /\ runs'[r].phase = "Failed"
          => /\ ~runs'[r].escaped
             /\ logs' \in ErrorTexts
             /\ r \notin DOMAIN runs => heap' = heap /\ sprite' = sprite]_vars

(***************************************************************************)
(* C10.  Every run starts on a new runtime that shows direction 90,        *)
(* position (0, 0), trail [(0, 0)], no speech and an empty log, whatever   *)
(* earlier runs did.                                                       *)
(***************************************************************************)
C10_FreshRuntime ==
    \A r \in Running(runs) :
        runs[r].pc = 0 =>
            /\ View(runs[r].rt.state, heap) = PristineView
            /\ runs[r].rt.logs = <<>>

(***************************************************************************)
(* C11.  wait(s) with s < 0 does what wait(0) does: it appends the line    *)
(* "Wait 0.0 second(s)", sets no timer, does not suspend the program and   *)
(* leaves the sprite state as it is.  wait(s) with s > 0 sets exactly one  *)
(* timer of s * 250 ms, and the program that awaits it goes on only after  *)
(* that timer has fired.                                                   *)
(***************************************************************************)
WaitZeroLine == "Wait 0.0 second(s)"

LinesOf(op) ==
    CASE op = "move" -> {"Move 10 steps", "Move 12 steps", "Move -20 steps", "Move NaN steps"}
      [] op = "turn" -> {"Turn right 90°", "Turn left 90°", "Turn left 8.673617379884035e-19°"}
      [] op = "say" -> {"Say: Hello, MyBlock!", "Say: I made a square!", "Say: "}
      [] op = "wait" -> {WaitZeroLine, "Wait 2.0 second(s)"}

C12_LogInCallOrder ==
    /\ [](\A r \in Running(runs) :
             /\ Len(runs[r].rt.logs) = Len(runs[r].calls)
             /\ \A i \in DOMAIN runs[r].calls : runs[r].rt.logs[i] \in LinesOf(runs[r].calls[i]))
    /\ [][\A r \in DOMAIN runs :
             r \in Running(runs) /\ r \in Running(runs') =>
                 IF runs'[r].calls # runs[r].calls
                 THEN /\ Len(runs'[r].calls) = Len(runs[r].calls) + 1
                      /\ IsPrefix(runs[r].calls, runs'[r].calls)
                      /\ Len(runs'[r].rt.logs) = Len(runs[r].rt.logs) + 1
                      /\ IsPrefix(runs[r].rt.logs, runs'[r].rt.logs)
                 ELSE runs'[r].rt.logs = runs[r].rt.logs]_vars

\* a move was logged after a wait whose timer is still pending
C12_Witness ==
    \E r \in Running(runs) :
        /\ runs[r].calls = <<"wait", "move", "say">>
        /\ runs[r].rt.logs = <<"Wait 2.0 second(s)", "Move -20 steps", "Say: ">>
        /\ runs[r].loose = 1

(***************************************************************************)
(* C13.  The starter program move(10); turn(90); say("Hello, MyBlock!"),   *)
(* run on a runtime that starts at (0, 0) with trail [(0, 0)], ends at     *)
(* (100, 0) with direction 180, speech "Hello, MyBlock!", trail            *)
(* [(0, 0), (100, 0)], the log lines "Move 10 steps", "Turn right 90°",    *)
(* "Say: Hello, MyBlock!" and the report                                   *)
(* "x: 100.0, y: 0.0, direction: 180°".                                    *)
(***************************************************************************)
StarterDone(r) ==
    /\ r \in Running(runs)
    /\ runs[r].text = defaultCode
    /\ runs[r].pc = Len(defaultProgram)

MoveSteps == MoveArgs \cup {i.num : i \in {j \in Range(defaultProgram) \cup Range(squareProgram) : j.op = "move"}}

\* the coordinate c is on a boundary and the target t lies beyond it
Beyond(c, t, half) ==
    \/ c = Num(half) /\ FlLt(Num(half), t)
    \/ c = Num(-half) /\ FlLt(t, Num(-half))

\* run r calls move(a) in this step, right after an earlier move, from a
\* position on a boundary that the target of this move lies beyond
OverMove(r, a) ==
    /\ Calls(r, "move")
    /\ runs[r].calls # <<>>
    /\ runs[r].calls[Len(runs[r].calls)] = "move"
    /\ runs'[r].rt.logs[Len(runs'[r].rt.logs)] = "Move " \o NumberToString(a) \o " steps"
    /\ LET st == runs[r].rt.state
           t == moveTarget(st, a)
       IN  Beyond(st.x, t.x, halfWidth) \/ Beyond(st.y, t.y, halfHeight)

C14_ClampIdempotent ==
    [][\A r \in DOMAIN runs : \A a \in MoveSteps :
          OverMove(r, a) =>
              /\ runs'[r].rt.state.x = runs[r].rt.state.x
              /\ runs'[r].rt.state.y = runs[r].rt.state.y
              /\ View(runs'[r].rt.state, heap').trail =
                     Append(View(runs[r].rt.state, heap).trail,
                            Point(runs[r].rt.state.x, runs[r].rt.state.y))]_vars

(***************************************************************************)
(* C15.  Every run goes Running -> Completed or Failed exactly once: a     *)
(* run that was started ends as Completed or as Failed once its timers     *)
(* have fired and its program has returned or thrown, an ended run stays   *)
(* what it is, the step that ends a run resets the running flag so that    *)
(* the run trigger is enabled again, and a run that starts gets a new      *)
(* runtime while the runs before it execute nothing more.  Ending is       *)
(* stated as: again and again no run is in flight; a run that is no longer *)
(* in flight is Completed or Failed for good.                              *)
(***************************************************************************)
Terminal == {"Completed", "Failed"}

C15_RunLifecycle ==
    /\ []<>(Running(runs) = {})
    /\ [](\A r \in DOMAIN runs : runs[r].phase \in Terminal \cup {"Running"})
    /\ [][/\ IsPrefix([r \in DOMAIN runs |-> 0], [r \in DOMAIN runs' |-> 0])
          /\ \A r \in DOMAIN runs :
                /\ runs[r].phase \in Terminal => runs'[r] = runs[r]
                /\ r \in Running(runs) /\ r \notin Running(runs') =>
                       /\ runs'[r].phase \in Terminal
                       /\ ~running'
                       /\ RunEnabled'
          /\ \A r \in DOMAIN runs' \ DOMAIN runs :
                /\ r = Len(runs) + 1
                /\ runs'[r].phase = "Running" =>
                       /\ runs'[r].rt = NewStageRuntime
                       /\ runs'[r].pc = 0
                       /\ runs'[r].calls = <<>>
                       /\ runs'[r].timer = NoTimer
                       /\ runs'[r].loose = 0]_vars

\* one run has completed and one has failed, after a wait on a timer, and
\* the run trigger is enabled
C15_Witness ==
    /\ Len(runs) = 2
    /\ {runs[1].phase, runs[2].phase} = Terminal
    /\ ~running
    /\ RunEnabled
    /\ logs = "Error: boom"
    /\ ops >= 1

(***************************************************************************)
(* C16.  In every state of a runtime the last point of the trail is the    *)
(* current position (x, y).  turn, say and wait leave the position and the *)
(* trail as they are, and move leaves direction and speech as they are.    *)
(***************************************************************************)
C16_TrailEndsAtPosition ==
    /\ [](\A r \in Running(runs) :
             LET st == View(runs[r].rt.state, heap)
             IN  st.trail[Len(st.trail)] = Point(st.x, st.y))
    /\ [][\A r \in DOMAIN runs :
             /\ Calls(r, "turn") \/ Calls(r, "say") \/ Calls(r, "wait") =>
                    /\ runs'[r].rt.state.x = runs[r].rt.state.x
                    /\ runs'[r].rt.state.y = runs[r].rt.state.y
                    /\ View(runs'[r].rt.state, heap').trail = View(runs[r].rt.state, heap).trail
             /\ Calls(r, "move") =>
                    /\ runs'[r].rt.state.direction = runs[r].rt.state.direction
                    /\ runs'[r].rt.state.speech = runs[r].rt.state.speech]_vars

====
